---- MODULE Spec2Model ----
(***************************************************************************)
(* extract_clash_profile (src/main.rs): fetch a base64 subscription        *)
(* payload, parse every line into a Server (ShadowSocks or Vmess), skip    *)
(* the first two, bucket the rest by country and write a Clash profile.    *)
(*                                                                         *)
(* Text is modelled as a sequence of Unicode scalar values (a Rust String  *)
(* seen as its chars), byte buffers as sequences of 0..255.  Text the      *)
(* program writes is a sequence of parts: a string literal of the source   *)
(* (a TLA+ string), an include_bytes! block (named by its file) or text    *)
(* computed at run time (a sequence of scalar values).                     *)
(***************************************************************************)
EXTENDS Integers, Sequences, FiniteSets, TLC

VARIABLES
    payload,    \* input: the links the subscription source serves (indices into Links)
    pc,         \* position of main
    file,       \* the file at PROFILE_PATH: [exists, content], content a sequence of write_all calls
    response,   \* get_servers: the fetched response body (bytes)
    lines,      \* get_servers: the lines of the decoded payload not yet parsed
    servers,    \* get_servers: Vec<Server> parsed so far, then write_proxies' iterator source
    next,       \* write_proxies: position of the iterator servers.into_iter().skip(2)
    buffer,     \* write_proxies: the Vec<u8> buffer (parts)
    groups,     \* write_proxies / write_rules: HashMap<Country, Vec<ServerName>>
    groups_en,  \* write_rules: HashMap<String, String> (label -> joined proxies), the part not yet iterated
    failure,    \* the panic that ended the run: [at, msg], at = 0 when none
    runs,       \* how many times the program has been started
    previous,   \* content of the file when the previous run finished (<<>> before)
    link,       \* parser run: the line handed to Server::from_str
    parsed,     \* parser run: what from_str did with it
    dname,      \* classifier run: the descriptor name
    country,    \* classifier run: the key write_proxies computes for it
    label       \* classifier run: what write_rules' match makes of the key

vars == <<payload, pc, file, response, lines, servers, next, buffer, groups, groups_en,
          failure, runs, previous, link, parsed, dname, country, label>>

-----------------------------------------------------------------------------
(* Bounds *)

\* lines in a subscription payload
MaxLines == 5
\* atoms (country tokens, fragments of them, other characters) in a classified name
MaxAtoms == 3
\* runs of the program on the same subscription
MaxRuns == 2

-----------------------------------------------------------------------------
(* Characters *)

LF == 10
CR == 13
QUOTE == 34
HASH == 35
PERCENT == 37
PLUS == 43
COMMA == 44
MINUS == 45
SLASH == 47
COLON == 58
EQUALS == 61
AT == 64
BACKSLASH == 92
LBRACE == 123
RBRACE == 125

IsDigit(c) == c >= 48 /\ c <= 57

\* the value of an ASCII hex digit, -1 for any other character
HexVal(c) ==
    IF IsDigit(c) THEN c - 48
    ELSE IF c >= 65 /\ c <= 70 THEN c - 55
    ELSE IF c >= 97 /\ c <= 102 THEN c - 87
    ELSE -1

HexDigit(v) == IF v < 10 THEN 48 + v ELSE 55 + v

-----------------------------------------------------------------------------
(* String::from_utf8 and str::as_bytes *)

IsCont(b) == b >= 128 /\ b <= 191

\* the length of the well-formed UTF-8 sequence starting at bs[i], 0 if there is none
Utf8SeqLen(bs, i) ==
    LET n == Len(bs)
        b0 == bs[i]
        b1 == IF i + 1 <= n THEN bs[i + 1] ELSE 0
        b2 == IF i + 2 <= n THEN bs[i + 2] ELSE 0
        b3 == IF i + 3 <= n THEN bs[i + 3] ELSE 0
    IN  IF b0 < 128 THEN 1
        ELSE IF b0 >= 194 /\ b0 <= 223 THEN (IF IsCont(b1) THEN 2 ELSE 0)
        ELSE IF b0 >= 224 /\ b0 <= 239 THEN
            (IF /\ IsCont(b1) /\ IsCont(b2)
                /\ (b0 = 224 => b1 >= 160)
                /\ (b0 = 237 => b1 <= 159)
             THEN 3 ELSE 0)
        ELSE IF b0 >= 240 /\ b0 <= 244 THEN
            (IF /\ IsCont(b1) /\ IsCont(b2) /\ IsCont(b3)
                /\ (b0 = 240 => b1 >= 144)
                /\ (b0 = 244 => b1 <= 143)
             THEN 4 ELSE 0)
        ELSE 0

Utf8Scalar(bs, i, k) ==
    IF k = 1 THEN bs[i]
    ELSE IF k = 2 THEN (bs[i] - 192) * 64 + (bs[i + 1] - 128)
    ELSE IF k = 3 THEN (bs[i] - 224) * 4096 + (bs[i + 1] - 128) * 64 + (bs[i + 2] - 128)
    ELSE (bs[i] - 240) * 262144 + (bs[i + 1] - 128) * 4096
            + (bs[i + 2] - 128) * 64 + (bs[i + 3] - 128)

\* bs is well-formed UTF-8: it opens with a lead byte, and every lead byte opens a
\* well-formed sequence that the end of bs or another lead byte follows
Utf8WellFormed(bs) ==
    \A i \in 1..Len(bs) :
        /\ (i = 1 => ~IsCont(bs[i]))
        /\ ~IsCont(bs[i]) =>
            LET k == Utf8SeqLen(bs, i)
            IN  k > 0 /\ (i + k <= Len(bs) => ~IsCont(bs[i + k]))

\* the scalar values of the sequences that open in bs[lo..hi] (halving keeps the
\* evaluation shallow)
RECURSIVE Utf8Scalars(_, _, _)
Utf8Scalars(bs, lo, hi) ==
    IF lo > hi THEN <<>>
    ELSE IF lo = hi
    THEN (IF IsCont(bs[lo]) THEN <<>> ELSE <<Utf8Scalar(bs, lo, Utf8SeqLen(bs, lo))>>)
    ELSE LET mid == (lo + hi) \div 2
         IN  Utf8Scalars(bs, lo, mid) \o Utf8Scalars(bs, mid + 1, hi)

IsAscii(s) == \A i \in 1..Len(s) : s[i] < 128

\* String::from_utf8(bytes): Ok(String) or Err(FromUtf8Error).  ASCII bytes are their
\* own scalar values.
String_from_utf8(bs) ==
    IF IsAscii(bs) THEN [ok |-> TRUE, chars |-> bs]
    ELSE IF Utf8WellFormed(bs)
    THEN [ok |-> TRUE, chars |-> Utf8Scalars(bs, 1, Len(bs))]
    ELSE [ok |-> FALSE, chars |-> <<>>]

Utf8Bytes(c) ==
    IF c < 128 THEN <<c>>
    ELSE IF c < 2048 THEN <<192 + (c \div 64), 128 + (c % 64)>>
    ELSE IF c < 65536 THEN <<224 + (c \div 4096), 128 + ((c \div 64) % 64), 128 + (c % 64)>>
    ELSE <<240 + (c \div 262144), 128 + ((c \div 4096) % 64),
           128 + ((c \div 64) % 64), 128 + (c % 64)>>

RECURSIVE Utf8Encode(_, _, _)
Utf8Encode(s, lo, hi) ==
    IF lo > hi THEN <<>>
    ELSE IF lo = hi THEN Utf8Bytes(s[lo])
    ELSE LET mid == (lo + hi) \div 2
         IN  Utf8Encode(s, lo, mid) \o Utf8Encode(s, mid + 1, hi)

\* the bytes of a String
as_bytes(s) == IF IsAscii(s) THEN s ELSE Utf8Encode(s, 1, Len(s))

-----------------------------------------------------------------------------
(* base64::decode, standard alphabet with padding *)

B64Val(c) ==
    IF c >= 65 /\ c <= 90 THEN c - 65
    ELSE IF c >= 97 /\ c <= 122 THEN c - 71
    ELSE IF IsDigit(c) THEN c + 4
    ELSE IF c = PLUS THEN 62
    ELSE IF c = SLASH THEN 63
    ELSE -1

B64Sym(v) ==
    IF v < 26 THEN 65 + v
    ELSE IF v < 52 THEN 71 + v
    ELSE IF v < 62 THEN v - 4
    ELSE IF v = 62 THEN PLUS
    ELSE SLASH

\* base64::decode(input): Ok(Vec<u8>) or Err(DecodeError).  Inputs of the model are
\* canonical encodings or hold a symbol outside the alphabet, where every version of
\* the crate agrees.
base64_decode(input) ==
    LET n == Len(input)
        pad == IF n >= 1 /\ input[n] = EQUALS
               THEN (IF n >= 2 /\ input[n - 1] = EQUALS THEN 2 ELSE 1)
               ELSE 0
        v(i) == IF i <= n - pad THEN B64Val(input[i]) ELSE 0
        wellFormed ==
            /\ n % 4 = 0
            /\ \A i \in 1..(n - pad) : B64Val(input[i]) >= 0
            /\ (pad = 1 => v(n - 1) % 4 = 0)
            /\ (pad = 2 => v(n - 2) % 16 = 0)
        outLen == 3 * (n \div 4) - pad
        byte(j) ==
            LET g == 4 * ((j - 1) \div 3)
                r == (j - 1) % 3
            IN  IF r = 0 THEN v(g + 1) * 4 + (v(g + 2) \div 16)
                ELSE IF r = 1 THEN (v(g + 2) % 16) * 16 + (v(g + 3) \div 4)
                ELSE (v(g + 3) % 4) * 64 + v(g + 4)
    IN  IF wellFormed
        THEN [ok |-> TRUE, bytes |-> [j \in 1..outLen |-> byte(j)]]
        ELSE [ok |-> FALSE, bytes |-> <<>>]

\* what the subscription source does: the canonical padded encoding
B64Encode(bs) ==
    LET n == Len(bs)
        b(i) == IF i <= n THEN bs[i] ELSE 0
        sym(k) ==
            LET g == 3 * ((k - 1) \div 4)
                r == (k - 1) % 4
            IN  IF r = 0 THEN B64Sym(b(g + 1) \div 4)
                ELSE IF r = 1 THEN B64Sym((b(g + 1) % 4) * 16 + (b(g + 2) \div 16))
                ELSE IF r = 2 THEN
                    (IF g + 2 > n THEN EQUALS
                     ELSE B64Sym((b(g + 2) % 16) * 4 + (b(g + 3) \div 64)))
                ELSE (IF g + 3 > n THEN EQUALS ELSE B64Sym(b(g + 3) % 64))
    IN  [k \in 1..(4 * ((n + 2) \div 3)) |-> sym(k)]

-----------------------------------------------------------------------------
(* str::lines *)

\* the index of the first LF of s at or after i, Len(s) + 1 if there is none
NextLF(s, i) ==
    LET at == {k \in i..Len(s) : s[k] = LF}
    IN  IF at = {} THEN Len(s) + 1 ELSE CHOOSE k \in at : \A m \in at : k <= m

RECURSIVE LinesFrom(_, _)
LinesFrom(s, i) ==
    IF i > Len(s) THEN <<>>
    ELSE LET e == NextLF(s, i)
             \* a line ends at LF or CR LF; the terminator is not part of it
             last == IF e <= Len(s) /\ e > i /\ s[e - 1] = CR THEN e - 2 ELSE e - 1
         IN  <<SubSeq(s, i, last)>> \o LinesFrom(s, e + 1)

\* s.lines(): the lines of s, a final line terminator yielding no empty last line
str_lines(s) == LinesFrom(s, 1)

-----------------------------------------------------------------------------
(* str::parse::<i32> and i32's Display *)

\* digits t[i..] accumulated onto acc the way from_str_radix does, with its
\* overflow checks (sign = 1 adds, sign = -1 subtracts)
RECURSIVE AccumulateI32(_, _, _, _)
AccumulateI32(t, i, sign, acc) ==
    IF i > Len(t) THEN [ok |-> TRUE, val |-> acc]
    ELSE IF ~IsDigit(t[i]) THEN [ok |-> FALSE, val |-> 0]
    ELSE LET d == t[i] - 48
         IN  IF sign = 1
             THEN (IF acc > 214748364 \/ (acc = 214748364 /\ d > 7)
                   THEN [ok |-> FALSE, val |-> 0]
                   ELSE AccumulateI32(t, i + 1, sign, acc * 10 + d))
             ELSE (IF acc < -214748364 \/ (acc = -214748364 /\ d > 8)
                   THEN [ok |-> FALSE, val |-> 0]
                   ELSE AccumulateI32(t, i + 1, sign, acc * 10 - d))

\* port.parse::<i32>(): Ok(i32) or Err(ParseIntError)
parse_i32(t) ==
    IF t = <<>> THEN [ok |-> FALSE, val |-> 0]
    ELSE IF t[1] = PLUS \/ t[1] = MINUS
    THEN (IF Len(t) = 1 THEN [ok |-> FALSE, val |-> 0]
          ELSE AccumulateI32(t, 2, IF t[1] = MINUS THEN -1 ELSE 1, 0))
    ELSE AccumulateI32(t, 1, 1, 0)

RECURSIVE DecimalDigits(_)
DecimalDigits(v) ==
    IF v < 10 THEN <<48 + v>> ELSE Append(DecimalDigits(v \div 10), 48 + (v % 10))

\* format!("{}", v) of an i32
i32_to_string(v) ==
    IF v >= 0 THEN DecimalDigits(v)
    ELSE LET m == -(v + 1)     \* the magnitude less one: no overflow at i32::MIN
             q == IF m % 10 = 9 THEN (m \div 10) + 1 ELSE m \div 10
             d == ((m % 10) + 1) % 10
         IN  <<MINUS>> \o (IF q = 0 THEN <<>> ELSE DecimalDigits(q)) \o <<48 + d>>

-----------------------------------------------------------------------------
(* urlencoding::decode *)

\* bs[i..i+2] is an escape %XY with two hex digits.  The bytes an escape covers are
\* hex digits, so no escape opens inside another and a left-to-right scan finds
\* exactly these.
IsEscape(bs, i) ==
    /\ i >= 1 /\ i + 2 <= Len(bs)
    /\ bs[i] = PERCENT
    /\ HexVal(bs[i + 1]) >= 0
    /\ HexVal(bs[i + 2]) >= 0

\* an escape is the byte 0xXY; any other byte stands for itself
RECURSIVE PercentDecode(_, _, _)
PercentDecode(bs, lo, hi) ==
    IF lo > hi THEN <<>>
    ELSE IF lo = hi
    THEN (IF IsEscape(bs, lo) THEN <<HexVal(bs[lo + 1]) * 16 + HexVal(bs[lo + 2])>>
          ELSE IF IsEscape(bs, lo - 1) \/ IsEscape(bs, lo - 2) THEN <<>>
          ELSE <<bs[lo]>>)
    ELSE LET mid == (lo + hi) \div 2
         IN  PercentDecode(bs, lo, mid) \o PercentDecode(bs, mid + 1, hi)

\* urlencoding::decode(s): the percent-decoded bytes as UTF-8, or Err(FromUtf8Error)
urlencoding_decode(s) ==
    LET bs == as_bytes(s) IN String_from_utf8(PercentDecode(bs, 1, Len(bs)))

\* what the subscription source does to a name: every byte of its UTF-8 form escaped
\* unless it is an ASCII letter or digit
RECURSIVE PercentEncodeBytes(_, _, _)
PercentEncodeBytes(bs, lo, hi) ==
    IF lo > hi THEN <<>>
    ELSE IF lo = hi
    THEN LET b == bs[lo]
         IN  IF IsDigit(b) \/ (b >= 65 /\ b <= 90) \/ (b >= 97 /\ b <= 122) \/ b = MINUS
             THEN <<b>>
             ELSE <<PERCENT, HexDigit(b \div 16), HexDigit(b % 16)>>
    ELSE LET mid == (lo + hi) \div 2
         IN  PercentEncodeBytes(bs, lo, mid) \o PercentEncodeBytes(bs, mid + 1, hi)

PercentEncode(s) == LET bs == as_bytes(s) IN PercentEncodeBytes(bs, 1, Len(bs))

-----------------------------------------------------------------------------
(* Substrings *)

StartsWith(s, prefix) ==
    Len(s) >= Len(prefix) /\ SubSeq(s, 1, Len(prefix)) = prefix

\* tok occurs in s at index i
MatchAt(s, i, tok) ==
    i + Len(tok) - 1 <= Len(s) /\ SubSeq(s, i, i + Len(tok) - 1) = tok

\* the index of the first c in s at or after i, 0 if there is none
IndexFrom(s, c, i) ==
    LET at == {k \in i..Len(s) : s[k] = c}
    IN  IF at = {} THEN 0 ELSE CHOOSE k \in at : \A m \in at : k <= m

\* the index of the last c in s at or before i, 0 if there is none
LastIndexUpTo(s, c, i) ==
    LET at == {k \in 1..i : s[k] = c}
    IN  IF at = {} THEN 0 ELSE CHOOSE k \in at : \A m \in at : k >= m

\* s.split_once(c): Some((before, after)) at the first c, or None
split_once(s, c) ==
    LET i == IndexFrom(s, c, 1)
    IN  IF i = 0 THEN [some |-> FALSE, before |-> <<>>, after |-> <<>>]
        ELSE [some |-> TRUE, before |-> SubSeq(s, 1, i - 1), after |-> SubSeq(s, i + 1, Len(s))]

-----------------------------------------------------------------------------
(* The regular expressions (lazy_static, main.rs 11-14 and 179-185) *)

STR_ss == <<115, 115>>                       \* "ss"
STR_vmess == <<118, 109, 101, 115, 115>>     \* "vmess"
STR_scheme_sep == <<58, 47, 47>>             \* "://"

\* RE_PROTO = ^(?P<p>ss|vmess)://(?P<body>.*) : the alternatives are tried in order at
\* index 1 and `.` stops at a line feed
RE_PROTO_captures(s) ==
    LET rest(p) == SubSeq(s, Len(p) + 4, NextLF(s, Len(p) + 4) - 1)
    IN  IF StartsWith(s, STR_ss \o STR_scheme_sep)
        THEN [some |-> TRUE, p |-> STR_ss, body |-> rest(STR_ss)]
        ELSE IF StartsWith(s, STR_vmess \o STR_scheme_sep)
        THEN [some |-> TRUE, p |-> STR_vmess, body |-> rest(STR_vmess)]
        ELSE [some |-> FALSE, p |-> <<>>, body |-> <<>>]

\* RE_SS = (?P<cipher>.*)@(?P<server>.*)#(?P<name>.*) on a text without line feeds:
\* the match starts at index 1, and the greedy groups leave `#` at the last # and
\* `@` at the last @ before it
RE_SS_captures(s) ==
    LET hash == LastIndexUpTo(s, HASH, Len(s))
        at == LastIndexUpTo(s, AT, hash - 1)
    IN  IF hash = 0 \/ at = 0
        THEN [some |-> FALSE, cipher |-> <<>>, server |-> <<>>, name |-> <<>>]
        ELSE [some |-> TRUE,
              cipher |-> SubSeq(s, 1, at - 1),
              server |-> SubSeq(s, at + 1, hash - 1),
              name |-> SubSeq(s, hash + 1, Len(s))]

TOKEN_HongKong == <<39321, 28207>>            \* 香港
TOKEN_US == <<32654, 22269>>                  \* 美国
TOKEN_Singapore == <<26032, 21152, 22369>>    \* 新加坡
TOKEN_Taiwan == <<21488, 28286>>              \* 台湾
TOKEN_Japan == <<26085, 26412>>               \* 日本
STR_others == <<111, 116, 104, 101, 114, 115>>   \* "others"

\* the alternatives of RE_COUNTRIES in the order the pattern lists them
COUNTRY_ALTERNATIVES ==
    <<TOKEN_HongKong, TOKEN_US, TOKEN_Singapore, TOKEN_Taiwan, TOKEN_Japan>>

\* the first alternative, in pattern order, that matches s at index i; <<>> if none
RECURSIVE AlternativeAt(_, _, _)
AlternativeAt(s, i, k) ==
    IF k > Len(COUNTRY_ALTERNATIVES) THEN <<>>
    ELSE IF MatchAt(s, i, COUNTRY_ALTERNATIVES[k]) THEN COUNTRY_ALTERNATIVES[k]
    ELSE AlternativeAt(s, i, k + 1)

\* the regex crate's leftmost-first search: the smallest index at which some
\* alternative matches, and there the first alternative that does
RECURSIVE SearchCountryFrom(_, _)
SearchCountryFrom(s, i) ==
    IF i > Len(s) THEN [some |-> FALSE, country |-> <<>>]
    ELSE LET m == AlternativeAt(s, i, 1)
         IN  IF m # <<>> THEN [some |-> TRUE, country |-> m]
             ELSE SearchCountryFrom(s, i + 1)

\* a search that tries each alternative over the whole text before the next one
RE_COUNTRIES_captures_by_precedence(s) ==
    LET found == {k \in 1..Len(COUNTRY_ALTERNATIVES) :
                     \E i \in 1..Len(s) : MatchAt(s, i, COUNTRY_ALTERNATIVES[k])}
    IN  IF found = {} THEN [some |-> FALSE, country |-> <<>>]
        ELSE [some |-> TRUE,
              country |-> COUNTRY_ALTERNATIVES[CHOOSE k \in found : \A m \in found : k <= m]]

\* RE_COUNTRIES.captures(name)
RE_COUNTRIES_captures(s) == SearchCountryFrom(s, 1)

-----------------------------------------------------------------------------
(* serde_json::from_str::<Vmess>.  The JSON read here is the fragment the model's   *)
(* inputs stay in: an object without white space whose keys and values are strings   *)
(* without escapes, or unsigned integers; any other text is an error.                *)

\* the string literal opening at t[i]: its content and the index after its closing quote
ScanJsonString(t, i) ==
    LET close == IndexFrom(t, QUOTE, i + 1)
    IN  IF i > Len(t) \/ t[i] # QUOTE \/ close = 0
        THEN [ok |-> FALSE, str |-> <<>>, next |-> 0]
        ELSE IF \E k \in (i + 1)..(close - 1) : t[k] = BACKSLASH \/ t[k] < 32
        THEN [ok |-> FALSE, str |-> <<>>, next |-> 0]
        ELSE [ok |-> TRUE, str |-> SubSeq(t, i + 1, close - 1), next |-> close + 1]

RECURSIVE DigitsEnd(_, _)
DigitsEnd(t, i) == IF i <= Len(t) /\ IsDigit(t[i]) THEN DigitsEnd(t, i + 1) ELSE i

\* a value at t[i]: a string, or an unsigned integer without leading zero
ScanJsonValue(t, i) ==
    IF i <= Len(t) /\ t[i] = QUOTE
    THEN LET v == ScanJsonString(t, i)
         IN  [ok |-> v.ok, isString |-> TRUE, str |-> v.str, next |-> v.next]
    ELSE LET e == DigitsEnd(t, i)
         IN  IF e = i \/ (t[i] = 48 /\ e > i + 1)
             THEN [ok |-> FALSE, isString |-> FALSE, str |-> <<>>, next |-> 0]
             ELSE [ok |-> TRUE, isString |-> FALSE, str |-> <<>>, next |-> e]

NoMembers == [ok |-> FALSE, members |-> <<>>]
JsonMemberOf(k, v) == [key |-> k.str, isString |-> v.isString, str |-> v.str]

\* the members "key":value, ... } from t[i] to the end of t
RECURSIVE ScanJsonMembers(_, _, _)

\* after the value v of the member whose key is k: a comma and more members, or the
\* closing brace at the end of t
ScanAfterValue(t, acc, k, v) ==
    IF ~v.ok \/ v.next > Len(t) THEN NoMembers
    ELSE IF t[v.next] = COMMA
    THEN ScanJsonMembers(t, v.next + 1, Append(acc, JsonMemberOf(k, v)))
    ELSE IF t[v.next] = RBRACE /\ v.next = Len(t)
    THEN [ok |-> TRUE, members |-> Append(acc, JsonMemberOf(k, v))]
    ELSE NoMembers

\* after the key k: a colon and a value
ScanAfterKey(t, acc, k) ==
    IF ~k.ok \/ k.next > Len(t) \/ t[k.next] # COLON THEN NoMembers
    ELSE ScanAfterValue(t, acc, k, ScanJsonValue(t, k.next + 1))

ScanJsonMembers(t, i, acc) == ScanAfterKey(t, acc, ScanJsonString(t, i))

json_object(t) ==
    IF Len(t) < 2 \/ t[1] # LBRACE THEN [ok |-> FALSE, members |-> <<>>]
    ELSE IF Len(t) = 2 /\ t[2] = RBRACE THEN [ok |-> TRUE, members |-> <<>>]
    ELSE ScanJsonMembers(t, 2, <<>>)

KEY_v == <<118>>                  \* "v"
KEY_ps == <<112, 115>>            \* "ps"
KEY_add == <<97, 100, 100>>       \* "add"
KEY_port == <<112, 111, 114, 116>>   \* "port"
KEY_id == <<105, 100>>            \* "id"
KEY_aid == <<97, 105, 100>>       \* "aid"

\* the wire names of struct Vmess's fields (its serde renames; port keeps its name)
VMESS_KEYS == {KEY_v, KEY_ps, KEY_add, KEY_port, KEY_id, KEY_aid}

\* #[derive(Deserialize)] struct Vmess: every field is a String and must occur once
\* (a missing field, a duplicate field and a value of another type are errors);
\* members with other keys are ignored
Vmess_deserialize(t) ==
    LET obj == json_object(t)
        occ(key) == LET Is(m) == m.key = key IN SelectSeq(obj.members, Is)
        field(key) == occ(key)[1].str
    IN  IF obj.ok /\ \A key \in VMESS_KEYS : Len(occ(key)) = 1 /\ occ(key)[1].isString
        THEN [ok |-> TRUE,
              vmess |-> [variant |-> "Vmess",
                         version |-> field(KEY_v),
                         name |-> field(KEY_ps),
                         host |-> field(KEY_add),
                         port |-> field(KEY_port),
                         uuid |-> field(KEY_id),
                         alter_id |-> field(KEY_aid)]]
        ELSE [ok |-> FALSE, vmess |-> [variant |-> "none"]]

-----------------------------------------------------------------------------
(* impl FromStr for Server *)

NoServer == [variant |-> "none"]

\* what a call of from_str ends in: Ok(server), Err(msg), or a panic at a source line
Ok(server) == [tag |-> "Ok", server |-> server, at |-> 0, msg |-> ""]
Err(msg) == [tag |-> "Err", server |-> NoServer, at |-> 0, msg |-> msg]
Panic(at, msg) == [tag |-> "Panic", server |-> NoServer, at |-> at, msg |-> msg]

UNWRAP_NONE == "called Option::unwrap() on a None value"
UNWRAP_ERR == "called Result::unwrap() on an Err value"

\* the "ss" arm, main.rs 195-211
from_str_ss(body) ==
    LET caps == RE_SS_captures(body)
        decoded == base64_decode(as_bytes(caps.cipher))
        text == String_from_utf8(decoded.bytes)
        cipher == split_once(text.chars, COLON)
        server == split_once(caps.server, COLON)
        name == urlencoding_decode(caps.name)
        port == parse_i32(server.after)
    IN  IF ~caps.some THEN Panic(196, UNWRAP_NONE)
        ELSE IF ~decoded.ok THEN Panic(198, UNWRAP_ERR)
        ELSE IF ~text.ok THEN Panic(198, UNWRAP_ERR)
        ELSE IF ~cipher.some THEN Panic(199, UNWRAP_NONE)
        ELSE IF ~server.some THEN Panic(201, UNWRAP_NONE)
        ELSE IF ~name.ok THEN Panic(204, UNWRAP_ERR)
        ELSE IF ~port.ok THEN Panic(206, UNWRAP_ERR)
        ELSE Ok([variant |-> "SS",
                 name |-> name.chars,
                 host |-> server.before,
                 port |-> port.val,
                 cipher |-> cipher.before,
                 password |-> cipher.after,
                 udp |-> TRUE])

\* the "vmess" arm, main.rs 212-215
from_str_vmess(body) ==
    LET decoded == base64_decode(as_bytes(body))
        text == String_from_utf8(decoded.bytes)
        v == Vmess_deserialize(text.chars)
    IN  IF ~decoded.ok THEN Panic(213, UNWRAP_ERR)
        ELSE IF ~text.ok THEN Panic(213, UNWRAP_ERR)
        ELSE IF ~v.ok THEN Panic(214, UNWRAP_ERR)
        ELSE Ok(v.vmess)

\* Server::from_str(s), main.rs 190-218
from_str(s) ==
    LET cap == RE_PROTO_captures(s)
    IN  IF ~cap.some THEN Panic(191, UNWRAP_NONE)
        ELSE IF cap.p = STR_ss THEN from_str_ss(cap.body)
        ELSE IF cap.p = STR_vmess THEN from_str_vmess(cap.body)
        ELSE Err("unexpected proto")

\* Server::name
Server_name(server) == server.name

-----------------------------------------------------------------------------
(* Written text: format! and write_all *)

Lit(str) == [kind |-> "lit", lit |-> str, txt |-> <<>>]
Txt(chars) == [kind |-> "txt", lit |-> "", txt |-> chars]
Include(path) == [kind |-> "include", lit |-> path, txt |-> <<>>]

\* impl ToString for ShadowSocks, main.rs 230-237
ShadowSocks_to_string(ss) ==
    <<Lit("{ name: '"), Txt(ss.name),
      Lit("', type: ss, server: "), Txt(ss.host),
      Lit(", port: "), Txt(i32_to_string(ss.port)),
      Lit(", cipher: "), Txt(ss.cipher),
      Lit(", password: "), Txt(ss.password),
      Lit(", udp: "), Lit(IF ss.udp THEN "true" ELSE "false"),
      Lit(" }")>>

\* impl ToString for Vmess, main.rs 238-244
Vmess_to_string(v) ==
    <<Lit("{ name: '"), Txt(v.name),
      Lit("', type: vmess, server: "), Txt(v.host),
      Lit(", port: "), Txt(v.port),
      Lit(", uuid: "), Txt(v.uuid),
      Lit(", alterId: "), Txt(v.alter_id),
      Lit(", cipher: auto, udp: true }")>>

\* impl ToString for Server, main.rs 221-228
Server_to_string(server) ==
    IF server.variant = "Vmess" THEN Vmess_to_string(server)
    ELSE ShadowSocks_to_string(server)

\* format!("    - {}\n", s.to_string()), main.rs 49
ProxyLine(server) == <<Lit("    - ")>> \o Server_to_string(server) \o <<Lit("\n")>>

-----------------------------------------------------------------------------
(* write_proxies: classification and aggregation *)

\* a classification whose default is spelled "other"
country_of_other(nm) ==
    LET caps == RE_COUNTRIES_captures(nm)
    IN  IF caps.some THEN caps.country ELSE <<111, 116, 104, 101, 114>>

\* RE_COUNTRIES.captures(&name).map_or("others", |s| s.name("country")...), main.rs 42-44
country_of(nm) ==
    LET caps == RE_COUNTRIES_captures(nm)
    IN  IF caps.some THEN caps.country ELSE STR_others

\* HashMap::new()
EmptyMap == [k \in {} |-> <<>>]

\* an insertion at the front of the bucket, Vec::insert(0, name)
entry_push_front(map, key, nm) ==
    IF key \in DOMAIN map
    THEN [map EXCEPT ![key] = <<nm>> \o @]
    ELSE [k \in DOMAIN map \cup {key} |-> IF k = key THEN <<nm>> ELSE map[k]]

\* groups.entry(country).or_insert(vec![]).push(name), main.rs 45-48
entry_push(map, key, nm) ==
    IF key \in DOMAIN map
    THEN [map EXCEPT ![key] = Append(@, nm)]
    ELSE [k \in DOMAIN map \cup {key} |-> IF k = key THEN <<nm>> ELSE map[k]]

\* skip(1)
Retained_skip_one(v) == SubSeq(v, 2, Len(v))

\* servers.into_iter().skip(2), main.rs 40
Retained(v) == SubSeq(v, 3, Len(v))

-----------------------------------------------------------------------------
(* write_rules *)

UNIMPLEMENTED == "not implemented: countries unknown"

\* the match of main.rs 72-80; its last arm is unimplemented!
country_en(key) ==
    IF key = TOKEN_HongKong THEN "HongKong"
    ELSE IF key = TOKEN_US THEN "US"
    ELSE IF key = TOKEN_Singapore THEN "Singapore"
    ELSE IF key = TOKEN_Taiwan THEN "Taiwan"
    ELSE IF key = TOKEN_Japan THEN "Japan"
    ELSE IF key = STR_others THEN "others"
    ELSE UNIMPLEMENTED

\* v.into_iter().map(|n| format!("'{}'", n)).collect::<Vec<String>>().join(", ")
RECURSIVE JoinQuoted(_, _)
JoinQuoted(names, i) ==
    IF i > Len(names) THEN <<>>
    ELSE (IF i > 1 THEN <<Lit(", ")>> ELSE <<>>)
         \o <<Lit("'"), Txt(names[i]), Lit("'")>>
         \o JoinQuoted(names, i + 1)

\* the HashMap<String, String> collected at main.rs 69-89 (when no key panics)
CollectGroups(map) ==
    [lbl \in {country_en(k) : k \in DOMAIN map} |->
        LET k == CHOOSE k \in DOMAIN map : country_en(k) = lbl
        IN  JoinQuoted(map[k], 1)]

\* format!("    - {{ name: '{}', type: select, proxies: [{}] }}\n", country, proxies)
GroupLine(lbl, proxies) ==
    <<Lit("    - { name: '"), Lit(lbl), Lit("', type: select, proxies: [")>>
    \o proxies \o <<Lit("] }\n")>>

PROXY_GROUPS_HEADER == <<Lit("\nproxy-groups:\n")>>
GROUP_Direct == <<Lit("    - { name: 'Direct', type: select, proxies: [DIRECT] }\n")>>
GROUP_Reject == <<Lit("    - { name: 'Reject', type: select, proxies: [REJECT,DIRECT] }\n")>>
GROUP_Unmatched == <<Lit("    - { name: 'Unmatched', type: select, proxies: ['HongKong'] }\n")>>
GROUP_Choice == <<Lit("    - { name: 'Choice', type: select, proxies: ['HongKong'] }\n")>>
GROUP_telegram == <<Lit("    - { name: 'telegram', type: select, proxies: ['US'] }\n")>>
RULES_HEADER == <<Lit("\nrules:\n")>>

\* the writes of main.rs 62-68, before the groups are converted
RulesOpening == <<PROXY_GROUPS_HEADER, GROUP_Direct, GROUP_Reject>>
\* no write between the conversion and the loop
RulesBeforeLoop_none == <<>>
\* the write of main.rs 90-92, after the conversion and before the loop
RulesBeforeLoop == <<GROUP_Unmatched>>
\* the writes of main.rs 104-112, after the loop
RulesClosing == <<GROUP_Choice, GROUP_telegram, RULES_HEADER, <<Include("../rules")>>>>

\* write_static_configs, main.rs 30-33
StaticConfig == <<Include("../clash_static_config.yaml")>>

-----------------------------------------------------------------------------
(* The subscription source: how the links and the response body are made *)

T_a == <<97>>       \* "a"
T_b == <<98>>       \* "b"
T_h == <<104>>      \* "h"
T_u == <<117>>      \* "u"
T_x == <<120>>      \* "x"
T_0 == <<48>>       \* "0"
T_1 == <<49>>       \* "1"
T_2 == <<50>>       \* "2"

\* ss://<base64 of cipher:password>@<host>:<port>#<percent-encoded name>
SsLink(cipher, password, host, port, nm) ==
    STR_ss \o STR_scheme_sep
    \o B64Encode(as_bytes(cipher \o <<COLON>> \o password))
    \o <<AT>> \o host \o <<COLON>> \o port \o <<HASH>> \o PercentEncode(nm)

JsonMember(key, value) == <<QUOTE>> \o key \o <<QUOTE, COLON, QUOTE>> \o value \o <<QUOTE>>

\* a member whose value is a number
JsonNumberMember(key, digits) == <<QUOTE>> \o key \o <<QUOTE, COLON>> \o digits

RECURSIVE JoinMembers(_, _)
JoinMembers(members, i) ==
    IF i > Len(members) THEN <<>>
    ELSE (IF i > 1 THEN <<COMMA>> ELSE <<>>) \o members[i] \o JoinMembers(members, i + 1)

JsonObject(members) == <<LBRACE>> \o JoinMembers(members, 1) \o <<RBRACE>>

\* {"v":..,"ps":..,"add":..,"port":..,"id":..,"aid":..}
VmessJson(version, nm, host, port, uuid, alter_id) ==
    JsonObject(<<JsonMember(KEY_v, version), JsonMember(KEY_ps, nm),
                 JsonMember(KEY_add, host), JsonMember(KEY_port, port),
                 JsonMember(KEY_id, uuid), JsonMember(KEY_aid, alter_id)>>)

\* vmess://<base64 of the JSON object>
VmessLink(json) == STR_vmess \o STR_scheme_sep \o B64Encode(as_bytes(json))

\* the lines a payload of a run is made of
Links ==
    <<SsLink(T_a, T_b, T_h, T_1, TOKEN_HongKong \o T_1),
      VmessLink(VmessJson(T_2, TOKEN_HongKong \o T_2, T_h, T_2, T_u, T_0)),
      SsLink(T_a, T_b, T_h, T_1, TOKEN_Japan),
      <<>>>>

Payloads == UNION {[1..n -> 1..Len(Links)] : n \in 0..MaxLines}

\* the lines joined by line feeds
RECURSIVE JoinLines(_, _)
JoinLines(p, i) ==
    IF i > Len(p) THEN <<>>
    ELSE (IF i > 1 THEN <<LF>> ELSE <<>>) \o Links[p[i]] \o JoinLines(p, i + 1)

\* the response body: the base64 envelope of the payload
Body(p) == B64Encode(as_bytes(JoinLines(p, 1)))

\* what reaches the program: the body, or one damaged on the way
Transport(how, bs) ==
    IF how = "garbled" THEN bs \o <<33>>        \* a symbol outside the base64 alphabet
    ELSE IF how = "binary" THEN <<255>> \o bs   \* a byte no UTF-8 text holds
    ELSE bs

-----------------------------------------------------------------------------
(* main *)

NoFailure == [at |-> 0, msg |-> ""]
NoFile == [exists |-> FALSE, content |-> <<>>]
NoPrevious == [finished |-> FALSE, content |-> <<>>]
NotParsed == [tag |-> "none", server |-> NoServer, at |-> 0, msg |-> ""]

inputVars == <<payload>>
localVars == <<response, lines, servers, next, buffer, groups, groups_en>>
otherRuns == <<link, parsed, dname, country, label>>

FreshLocals ==
    /\ response = <<>>
    /\ lines = <<>>
    /\ servers = <<>>
    /\ next = 0
    /\ buffer = <<>>
    /\ groups = EmptyMap
    /\ groups_en = EmptyMap

IdleParser == link = <<>> /\ parsed = NotParsed
IdleClassifier == dname = <<>> /\ country = <<>> /\ label = ""

Init ==
    /\ payload \in Payloads
    /\ pc = "start"
    /\ file = NoFile
    /\ FreshLocals
    /\ failure = NoFailure
    /\ runs = 1
    /\ previous = NoPrevious
    /\ IdleParser
    /\ IdleClassifier

\* a panic: the process ends where it is, the file keeps what was written
PanicAt(at, msg) ==
    /\ pc' = "panicked"
    /\ failure' = [at |-> at, msg |-> msg]

write_all(writes) == file' = [file EXCEPT !.content = @ \o writes]

\* File::create(PROFILE_PATH), main.rs 23: the file exists and is empty
CreateFile ==
    /\ pc = "start"
    /\ file' = [exists |-> TRUE, content |-> <<>>]
    /\ pc' = "static"
    /\ UNCHANGED <<inputVars, localVars, failure, runs, previous, otherRuns>>

\* write_static_configs(&mut config_file), main.rs 24
WriteStaticConfigs ==
    /\ pc = "static"
    /\ write_all(<<StaticConfig>>)
    /\ pc' = "fetch"
    /\ UNCHANGED <<inputVars, localVars, failure, runs, previous, otherRuns>>

\* get_servers, main.rs 116-125: the request fails, or a body arrives
Fetch ==
    /\ pc = "fetch"
    /\ \E how \in {"error", "intact", "garbled", "binary"} :
        IF how = "error"
        THEN /\ PanicAt(120, UNWRAP_ERR)
             /\ UNCHANGED response
        ELSE /\ response' = Transport(how, Body(payload))
             /\ pc' = "decode"
             /\ UNCHANGED failure
    /\ UNCHANGED <<inputVars, file, lines, servers, next, buffer, groups, groups_en,
                   runs, previous, otherRuns>>

\* get_servers, main.rs 126-132: the body as text, its base64 decoded, every byte a char
DecodeEnvelope ==
    /\ pc = "decode"
    /\ LET s == String_from_utf8(response)
           decoded == base64_decode(as_bytes(s.chars))
       IN  IF ~s.ok
           THEN PanicAt(126, UNWRAP_ERR) /\ UNCHANGED lines
           ELSE IF ~decoded.ok
           THEN PanicAt(128, UNWRAP_ERR) /\ UNCHANGED lines
           ELSE /\ lines' = str_lines(decoded.bytes)
                /\ pc' = "parse"
                /\ UNCHANGED failure
    /\ response' = <<>>
    /\ UNCHANGED <<inputVars, file, servers, next, buffer, groups, groups_en,
                   runs, previous, otherRuns>>

\* get_servers, main.rs 133-136: one turn of the loop over s.lines()
ParseLine ==
    /\ pc = "parse"
    /\ lines # <<>>
    /\ LET r == from_str(Head(lines))
       IN  IF r.tag = "Ok"
           THEN /\ servers' = Append(servers, r.server)
                /\ lines' = Tail(lines)
                /\ UNCHANGED <<pc, failure>>
           ELSE IF r.tag = "Panic"
           THEN PanicAt(r.at, r.msg) /\ UNCHANGED <<lines, servers>>
           ELSE PanicAt(134, r.msg) /\ UNCHANGED <<lines, servers>>
    /\ UNCHANGED <<inputVars, file, response, next, buffer, groups, groups_en,
                   runs, previous, otherRuns>>

\* get_servers returns; write_proxies, main.rs 38-40, starts its buffer and its map
ReturnServers ==
    /\ pc = "parse"
    /\ lines = <<>>
    /\ buffer' = <<Lit("\nproxies:\n")>>
    /\ groups' = EmptyMap
    /\ next' = 1
    /\ pc' = "proxies"
    /\ UNCHANGED <<inputVars, file, response, lines, servers, groups_en,
                   failure, runs, previous, otherRuns>>

\* write_proxies, main.rs 40-51: one turn of the loop over servers.into_iter().skip(2)
Aggregate ==
    /\ pc = "proxies"
    /\ next <= Len(Retained(servers))
    /\ LET s == Retained(servers)[next]
           nm == Server_name(s)
       IN  /\ groups' = entry_push(groups, country_of(nm), nm)
           /\ buffer' = buffer \o ProxyLine(s)
    /\ next' = next + 1
    /\ UNCHANGED <<inputVars, pc, file, response, lines, servers, groups_en,
                   failure, runs, previous, otherRuns>>

\* write_proxies, main.rs 52-53: the buffer goes to the file in one write
WriteBuffer ==
    /\ pc = "proxies"
    /\ next > Len(Retained(servers))
    /\ write_all(<<buffer>>)
    /\ buffer' = <<>>
    /\ pc' = "rules"
    /\ UNCHANGED <<inputVars, response, lines, servers, next, groups, groups_en,
                   failure, runs, previous, otherRuns>>

\* write_rules, main.rs 62-92: three writes, the conversion of the map (which panics
\* on a key the match does not know), and the Unmatched group
WriteRulesOpening ==
    /\ pc = "rules"
    /\ IF \E k \in DOMAIN groups : country_en(k) = UNIMPLEMENTED
       THEN /\ write_all(RulesOpening)
            /\ PanicAt(79, UNIMPLEMENTED)
            /\ UNCHANGED groups_en
       ELSE /\ write_all(RulesOpening \o RulesBeforeLoop)
            /\ groups_en' = CollectGroups(groups)
            /\ pc' = "emit"
            /\ UNCHANGED failure
    /\ UNCHANGED <<inputVars, response, lines, servers, next, buffer, groups,
                   runs, previous, otherRuns>>

\* write_rules, main.rs 93-103: one turn of the loop over the HashMap, whose
\* iteration order is any order of its entries
EmitGroup ==
    /\ pc = "emit"
    /\ \E lbl \in DOMAIN groups_en :
        /\ write_all(<<GroupLine(lbl, groups_en[lbl])>>)
        /\ groups_en' = [l \in DOMAIN groups_en \ {lbl} |-> groups_en[l]]
    /\ UNCHANGED <<inputVars, pc, response, lines, servers, next, buffer, groups,
                   failure, runs, previous, otherRuns>>

\* write_rules, main.rs 104-112
WriteRulesClosing ==
    /\ pc = "emit"
    /\ DOMAIN groups_en = {}
    /\ write_all(RulesClosing)
    /\ pc' = "flush"
    /\ UNCHANGED <<inputVars, localVars, failure, runs, previous, otherRuns>>

\* config_file.flush(), main.rs 27, and main returns
Flush ==
    /\ pc = "flush"
    /\ pc' = "done"
    /\ UNCHANGED <<inputVars, file, localVars, failure, runs, previous, otherRuns>>

\* the program is started again on the same subscription after a run that finished;
\* the file stays as that run left it until File::create truncates it
Rerun ==
    /\ pc = "done"
    /\ runs < MaxRuns
    /\ runs' = runs + 1
    /\ previous' = [finished |-> TRUE, content |-> file.content]
    /\ pc' = "start"
    /\ failure' = NoFailure
    /\ response' = <<>>
    /\ lines' = <<>>
    /\ servers' = <<>>
    /\ next' = 0
    /\ buffer' = <<>>
    /\ groups' = EmptyMap
    /\ groups_en' = EmptyMap
    /\ UNCHANGED <<inputVars, file, otherRuns>>

Next ==
    \/ CreateFile
    \/ WriteStaticConfigs
    \/ Fetch
    \/ DecodeEnvelope
    \/ ParseLine
    \/ ReturnServers
    \/ Aggregate
    \/ WriteBuffer
    \/ WriteRulesOpening
    \/ EmitGroup
    \/ WriteRulesClosing
    \/ Flush
    \/ Rerun

Spec == Init /\ [][Next]_vars

-----------------------------------------------------------------------------
(* Server::from_str on its own: one line in, one outcome out *)

PortTexts ==
    {<<48>>,                                        \* 0
     <<49>>,                                        \* 1
     <<56, 51, 56, 56>>,                            \* 8388
     <<54, 53, 53, 51, 53>>,                        \* 65535
     <<54, 53, 53, 51, 54>>,                        \* 65536
     <<55, 48, 48, 48, 48>>,                        \* 70000
     <<45, 49>>,                                    \* -1
     <<43, 53>>,                                    \* +5
     <<97, 98, 99>>,                                \* abc
     <<>>,                                          \* (empty)
     <<50, 49, 52, 55, 52, 56, 51, 54, 52, 56>>}    \* 2147483648

NameTexts ==
    {T_x,
     <<72, 75, 45, 49>>,                            \* HK-1
     TOKEN_HongKong \o <<45, 49>>}                  \* 香港-1

OtherLinks ==
    {<<>>,
     \* ftp://foo
     <<102, 116, 112, 58, 47, 47, 102, 111, 111>>,
     \* http://h:1
     <<104, 116, 116, 112, 58, 47, 47, 104, 58, 49>>,
     \* SS://YTpi@h:1#x
     <<83, 83, 58, 47, 47, 89, 84, 112, 105, 64, 104, 58, 49, 35, 120>>,
     \* (space)ss://YTpi@h:1#x
     <<32, 115, 115, 58, 47, 47, 89, 84, 112, 105, 64, 104, 58, 49, 35, 120>>,
     \* ss:/YTpi@h:1#x
     <<115, 115, 58, 47, 89, 84, 112, 105, 64, 104, 58, 49, 35, 120>>,
     \* vmess:YTpi
     <<118, 109, 101, 115, 115, 58, 89, 84, 112, 105>>,
     \* ss://
     <<115, 115, 58, 47, 47>>,
     \* ss://YWVzLTI1Ni1nY206cGFzcw==@1.2.3.4:8388#HK-1
     <<115, 115, 58, 47, 47, 89, 87, 86, 122, 76, 84, 73, 49, 78, 105, 49, 110, 89, 50,
       48, 54, 99, 71, 70, 122, 99, 119, 61, 61, 64, 49, 46, 50, 46, 51, 46, 52, 58, 56,
       51, 56, 56, 35, 72, 75, 45, 49>>,
     \* ss://YTpi@h#x
     <<115, 115, 58, 47, 47, 89, 84, 112, 105, 64, 104, 35, 120>>,
     \* ss://YTpi#x@h:1
     <<115, 115, 58, 47, 47, 89, 84, 112, 105, 35, 120, 64, 104, 58, 49>>,
     \* ss://!!!!@h:1#x
     <<115, 115, 58, 47, 47, 33, 33, 33, 33, 64, 104, 58, 49, 35, 120>>,
     \* ss://YQ==@h:1#x
     <<115, 115, 58, 47, 47, 89, 81, 61, 61, 64, 104, 58, 49, 35, 120>>,
     \* ss://YTpi@h:1#%FF
     <<115, 115, 58, 47, 47, 89, 84, 112, 105, 64, 104, 58, 49, 35, 37, 70, 70>>,
     \* vmess://e30=
     <<118, 109, 101, 115, 115, 58, 47, 47, 101, 51, 48, 61>>,
     \* vmess://!
     <<118, 109, 101, 115, 115, 58, 47, 47, 33>>,
     \* vmess with "port":1, a number
     VmessLink(JsonObject(<<JsonMember(KEY_v, T_2), JsonMember(KEY_ps, T_x),
                            JsonMember(KEY_add, T_h), JsonNumberMember(KEY_port, T_1),
                            JsonMember(KEY_id, T_u), JsonMember(KEY_aid, T_0)>>)),
     \* vmess without "aid"
     VmessLink(JsonObject(<<JsonMember(KEY_v, T_2), JsonMember(KEY_ps, T_x),
                            JsonMember(KEY_add, T_h), JsonMember(KEY_port, T_1),
                            JsonMember(KEY_id, T_u)>>)),
     \* vmess with "ps" twice
     VmessLink(JsonObject(<<JsonMember(KEY_v, T_2), JsonMember(KEY_ps, T_x),
                            JsonMember(KEY_ps, T_x),
                            JsonMember(KEY_add, T_h), JsonMember(KEY_port, T_1),
                            JsonMember(KEY_id, T_u), JsonMember(KEY_aid, T_0)>>)),
     \* vmess with a member the struct does not name
     VmessLink(JsonObject(<<JsonMember(KEY_v, T_2), JsonMember(KEY_ps, T_x),
                            JsonMember(KEY_add, T_h), JsonMember(KEY_port, T_1),
                            JsonMember(T_a, T_b), JsonNumberMember(T_b, T_1),
                            JsonMember(KEY_id, T_u), JsonMember(KEY_aid, T_0)>>))}

ParseLinks ==
    {SsLink(T_a, T_b, T_h, port, nm) : port \in PortTexts, nm \in NameTexts}
    \cup {VmessLink(VmessJson(T_2, nm, T_h, port, T_u, T_0)) :
             port \in PortTexts, nm \in NameTexts}
    \cup OtherLinks

IdlePipeline ==
    /\ payload = <<>>
    /\ pc = "idle"
    /\ file = NoFile
    /\ FreshLocals
    /\ failure = NoFailure
    /\ runs = 0
    /\ previous = NoPrevious

InitParse ==
    /\ IdlePipeline
    /\ link \in ParseLinks
    /\ parsed = NotParsed
    /\ IdleClassifier

\* line.parse::<Server>()
Parse ==
    /\ parsed = NotParsed
    /\ link \in ParseLinks
    /\ parsed' = from_str(link)
    /\ UNCHANGED <<inputVars, pc, file, localVars, failure, runs, previous,
                   link, dname, country, label>>

NextParse == Parse

SpecParse == InitParse /\ [][NextParse]_vars

-----------------------------------------------------------------------------
(* The classifier on its own: a name in, a key and its English label out *)

\* what names are made of: the five tokens, fragments of tokens, another character
Atoms ==
    <<TOKEN_HongKong, TOKEN_US, TOKEN_Singapore, TOKEN_Taiwan, TOKEN_Japan,
      <<65>>, <<39321>>, <<26412>>>>

RECURSIVE ConcatAtoms(_, _)
ConcatAtoms(ids, i) ==
    IF i > Len(ids) THEN <<>> ELSE Atoms[ids[i]] \o ConcatAtoms(ids, i + 1)

Names ==
    {ConcatAtoms(ids, 1) : ids \in UNION {[1..n -> 1..Len(Atoms)] : n \in 0..MaxAtoms}}

InitClassify ==
    /\ IdlePipeline
    /\ IdleParser
    /\ dname \in Names
    /\ country = <<>>
    /\ label = ""

\* write_proxies, main.rs 42-44, on the name
Classify ==
    /\ pc = "idle"
    /\ country = <<>>
    /\ country' = country_of(dname)
    /\ UNCHANGED <<inputVars, pc, file, localVars, failure, runs, previous,
                   link, parsed, dname, label>>

\* write_rules, main.rs 72-80, on the key
MapCountry ==
    /\ country # <<>>
    /\ label = ""
    /\ label' = country_en(country)
    /\ UNCHANGED <<inputVars, pc, file, localVars, failure, runs, previous,
                   link, parsed, dname, country>>

NextClassify == Classify \/ MapCountry

SpecClassify == InitClassify /\ [][NextClassify]_vars

-----------------------------------------------------------------------------
(* Properties *)

FixedGroupNames == <<"Direct", "Reject", "Unmatched", "Choice", "telegram">>
FixedGroups == <<GROUP_Direct, GROUP_Reject, GROUP_Unmatched, GROUP_Choice, GROUP_telegram>>
CountryLabels == {"HongKong", "US", "Singapore", "Taiwan", "Japan", "others"}
SixTags == {COUNTRY_ALTERNATIVES[k] : k \in 1..Len(COUNTRY_ALTERNATIVES)} \cup {STR_others}

\* a write that is one selector group of the proxy-groups section
IsCountryGroup(w) ==
    /\ Len(w) >= 3
    /\ w[1] = Lit("    - { name: '")
    /\ w[3] = Lit("', type: select, proxies: [")
IsGroupWrite(w) == (\E k \in 1..Len(FixedGroups) : w = FixedGroups[k]) \/ IsCountryGroup(w)

GroupName(w) ==
    IF \E k \in 1..Len(FixedGroups) : w = FixedGroups[k]
    THEN FixedGroupNames[CHOOSE k \in 1..Len(FixedGroups) : w = FixedGroups[k]]
    ELSE w[2].lit

\* the names of the selector groups of a document, in the order they were written
GroupNames(content) ==
    LET ws == SelectSeq(content, IsGroupWrite)
    IN  [i \in 1..Len(ws) |-> GroupName(ws[i])]

IsCountryLabel(nm) == nm \in CountryLabels

\* a document with its four sections: preamble, proxies, proxy-groups, rules
IsComplete(content) ==
    /\ Len(content) >= 10
    /\ content[1] = StaticConfig
    /\ content[2][1] = Lit("\nproxies:\n")
    /\ content[3] = PROXY_GROUPS_HEADER
    /\ content[Len(content) - 1] = RULES_HEADER
    /\ content[Len(content)] = <<Include("../rules")>>

Terminal == pc \in {"done", "panicked"}
AfterProxies == pc \in {"rules", "emit", "flush", "done"}

\* C1: in every terminal state the output document is complete, or it does not
\* exist or holds nothing this run wrote.
C1_AllOrNothing ==
    Terminal => (IsComplete(file.content) \/ ~file.exists \/ file.content = <<>>)

\* C2 as stated: at the end of a run the groups are Direct, Reject, the country
\* groups, and only then Unmatched, Choice, telegram.
C2_TrailingAfterCountries ==
    pc = "done" =>
        LET g == GroupNames(file.content)
            n == Len(g)
        IN  /\ n >= 5
            /\ SubSeq(g, 1, 2) = <<"Direct", "Reject">>
            /\ \A i \in 3..(n - 3) : IsCountryLabel(g[i])
            /\ SubSeq(g, n - 2, n) = <<"Unmatched", "Choice", "telegram">>

\* C2: the groups written so far are always a prefix of Direct, Reject, Unmatched,
\* the country groups (each once), Choice, telegram; once the section is written
\* the sequence is whole and the country groups are those of the populated buckets.
C2_UnmatchedBeforeCountries ==
    LET g == GroupNames(file.content)
        countries == SelectSeq(g, IsCountryLabel)
        whole == <<"Direct", "Reject", "Unmatched">> \o countries \o <<"Choice", "telegram">>
    IN  /\ Len(g) <= Len(whole)
        /\ g = SubSeq(whole, 1, Len(g))
        /\ \A i, j \in 1..Len(countries) : countries[i] = countries[j] => i = j
        /\ pc \in {"flush", "done"} =>
              /\ g = whole
              /\ {countries[i] : i \in 1..Len(countries)}
                    = {country_en(k) : k \in DOMAIN groups}

C2_TwoCountryGroups ==
    /\ pc = "done"
    /\ Cardinality(DOMAIN groups) >= 2
    /\ Len(GroupNames(file.content)) = 5 + Cardinality(DOMAIN groups)

\* C3: a run on the subscription of an earlier finished run writes the very
\* document that run wrote.
C3_Deterministic ==
    (pc = "done" /\ previous.finished) => file.content = previous.content

RECURSIVE ProxyEntries(_, _)
ProxyEntries(v, i) ==
    IF i > Len(v) THEN <<>> ELSE ProxyLine(v[i]) \o ProxyEntries(v, i + 1)

RECURSIVE BucketTotal(_, _)
BucketTotal(map, keys) ==
    IF keys = {} THEN 0
    ELSE LET k == CHOOSE k \in keys : TRUE
         IN  Len(map[k]) + BucketTotal(map, keys \ {k})

\* C4: of n parsed descriptors the proxies section lists exactly those at
\* positions 3..n, in input order, and the buckets hold as many names; with
\* n < 3 the list and the buckets are empty and the five fixed groups are
\* still written.
C4_SkipFirstTwo ==
    AfterProxies =>
        LET n == Len(servers)
            kept == SubSeq(servers, 3, n)
        IN  /\ file.content[2] = <<Lit("\nproxies:\n")>> \o ProxyEntries(kept, 1)
            /\ BucketTotal(groups, DOMAIN groups) = Len(kept)
            /\ n < 3 => groups = EmptyMap
            /\ (n < 3 /\ pc = "done") => GroupNames(file.content) = FixedGroupNames

C4_FourDescriptors ==
    /\ pc = "done"
    /\ Len(servers) >= 4
    /\ servers[1] # servers[3]

\* the line starts with ss:// or with vmess://
HasKnownScheme(s) ==
    StartsWith(s, STR_ss \o STR_scheme_sep) \/ StartsWith(s, STR_vmess \o STR_scheme_sep)

\* C5: a line that starts with neither ss:// nor vmess:// makes the parser
\* return its unsupported-scheme error.
C5_UnsupportedScheme ==
    (parsed # NotParsed /\ ~HasKnownScheme(link)) =>
        (parsed.tag = "Err" /\ parsed.msg = "unexpected proto")

\* C6: no run fails on a blank line of the decoded payload.
C6_BlankLinesSkipped ==
    ~(pc = "panicked" /\ lines # <<>> /\ Head(lines) = <<>>)

\* the port of a descriptor, as an integer when it is one
PortOf(server) ==
    IF server.variant = "SS" THEN [ok |-> TRUE, val |-> server.port]
    ELSE parse_i32(server.port)

\* C7: every descriptor the parser constructs has an integer port in 1..65535.
C7_PortInRange ==
    parsed.tag = "Ok" =>
        (PortOf(parsed.server).ok /\ PortOf(parsed.server).val \in 1..65535)

Contains(s, tok) == \E i \in 1..Len(s) : MatchAt(s, i, tok)

\* the index in s of the first occurrence of tok
FirstAt(s, tok) == CHOOSE i \in 1..Len(s) : MatchAt(s, i, tok) /\ \A j \in 1..(i - 1) : ~MatchAt(s, j, tok)

Classified == country # <<>>

\* C8 as stated: of the tokens a name contains, the one first in the order
\* HongKong, US, Singapore, Taiwan, Japan gives the tag, wherever it stands.
C8_GlobalPrecedence ==
    Classified =>
        \A k \in 1..Len(COUNTRY_ALTERNATIVES) :
            (/\ Contains(dname, COUNTRY_ALTERNATIVES[k])
             /\ \A m \in 1..(k - 1) : ~Contains(dname, COUNTRY_ALTERNATIVES[m]))
            => country = COUNTRY_ALTERNATIVES[k]

\* C8: of the tokens a name contains, the one that occurs leftmost in the name
\* gives the tag; a name that contains none is tagged others.
C8_LeftmostOccurrence ==
    Classified =>
        LET present == {k \in 1..Len(COUNTRY_ALTERNATIVES) :
                            Contains(dname, COUNTRY_ALTERNATIVES[k])}
        IN  IF present = {} THEN country = STR_others
            ELSE \E k \in present :
                    /\ country = COUNTRY_ALTERNATIVES[k]
                    /\ \A m \in present :
                          FirstAt(dname, COUNTRY_ALTERNATIVES[k])
                              <= FirstAt(dname, COUNTRY_ALTERNATIVES[m])

C8_JapanBeforeHongKong ==
    /\ country = TOKEN_Japan
    /\ Contains(dname, TOKEN_HongKong)

\* the names of the retained descriptors the loop of write_proxies has taken
NamesTaken ==
    LET kept == SubSeq(servers, 3, Len(servers))
        taken == IF next - 1 < Len(kept) THEN next - 1 ELSE Len(kept)
    IN  [i \in 1..taken |-> kept[i].name]

\* C9: each bucket is the subsequence, in input order and with duplicates, of the
\* names taken so far that classify to its tag, and there is a bucket only for
\* a tag some taken name classifies to.
C9_BucketsKeepInputOrder ==
    pc \in {"proxies", "rules", "emit", "flush", "done"} =>
        LET taken == NamesTaken
            HasTag(k) == LET P(nm) == country_of(nm) = k IN SelectSeq(taken, P)
        IN  /\ DOMAIN groups = {country_of(taken[i]) : i \in 1..Len(taken)}
            /\ \A k \in DOMAIN groups : groups[k] = HasTag(k)

C9_TwoInOneBucket ==
    /\ pc = "done"
    /\ Cardinality(DOMAIN groups) >= 2
    /\ \E k \in DOMAIN groups : Len(groups[k]) >= 2 /\ groups[k][1] # groups[k][2]

\* C10: the tag of every name is one of the six, and the English label of a tag
\* never comes from the unknown-country arm.
C10_ClosedDomain ==
    /\ Classified => country \in SixTags
    /\ label # UNIMPLEMENTED

C10_OthersLabelled ==
    /\ label = "others"
    /\ dname # <<>>
    /\ ~(\E k \in 1..Len(COUNTRY_ALTERNATIVES) : Contains(dname, COUNTRY_ALTERNATIVES[k]))

====
